---- MODULE Spec2Model ----
(***************************************************************************)
(* websocket-async-io: AsyncRead / AsyncBufRead / AsyncWrite on top of a   *)
(* browser WebSocket (src/src/lib.rs).                                     *)
(*                                                                         *)
(* The model follows the single-threaded event loop of the host: every     *)
(* action is one callback invocation (open / message / error / loadend)    *)
(* or one poll of a future (connect, read, fill_buf, write, flush, close). *)
(* A panic (unwrap / expect / slice bound) is recorded in `panic` and is   *)
(* terminal.                                                               *)
(***************************************************************************)
EXTENDS Integers, Sequences, FiniteSets, TLC

(* ------------------------------ bounds -------------------------------- *)
\* number of message events the transport delivers in one run
MaxMsgs == 2
\* largest binary payload (bytes) of one message event
MaxChunkLen == 2
\* largest caller buffer handed to read(buf)
MaxBuf == 3
\* largest buffer handed to write(buf)
MaxWrite == 1

(* -------------------------- program constants ------------------------- *)
\* let buffer = 4;  (capacity argument of mpsc::channel)
buffer == 4
\* content of a caller buffer before the call (vec![0; N] in the example)
Stale == 0

VARIABLES
    wsState,     \* ws.readyState: "connecting" | "open" | "closing" | "closed";
                 \* "none" when WebSocket::new failed and there is no socket
    open_tx,     \* Option<oneshot::Sender>: "Some" | "None"
    open_rx,     \* oneshot channel content: "empty" | "sent"
    connectPc,   \* new_inner: "awaiting" (line 108) | "ready" (handle returned) | "split";
                 \* "none" when new_inner panicked at line 59
    nMsgs,       \* message events delivered so far
    inflight,    \* FileReaders whose loadend has not fired: set of [id, data]
    queue,       \* messages in the mpsc channel, oldest first
    rxOpen,      \* the Receiver has not been dropped
    recv_task,   \* a waker of the reader task is registered in the channel
    remaining,   \* WebsocketReader::remaining
    reader,      \* read half: "none" | "idle" | "suspended" | "dropped"
    pending,     \* the call the suspended reader task is awaiting
    woken,       \* the reader task has been woken and awaits its next poll
    writer,      \* write half: "none" | "live" | "dropped"
    wres,        \* outcome of the last call on the write half
    panic,       \* "none", or the place that panicked
    enq,         \* history: chunks enqueued, in enqueue order
    enqIds,      \* history: message ids in enqueue order
    out,         \* history: bytes handed to the caller by read and consume
    last,        \* history: the last poll/call on the read half
    prev         \* history: the poll/call before `last` (op, ret, view)

vars == <<wsState, open_tx, open_rx, connectPc, nMsgs, inflight, queue, rxOpen,
          recv_task, remaining, reader, pending, woken, writer, wres, panic,
          enq, enqIds, out, last, prev>>

(* ------------------------------ helpers ------------------------------- *)
\* bytes of the binary payload of message `id` with `len` bytes: all distinct
Payload(id, len) == [i \in 1..len |-> 16 * id + i]

Min(a, b) == IF a < b THEN a ELSE b

RECURSIVE Flatten(_)
Flatten(chunks) ==
    IF chunks = <<>> THEN <<>> ELSE Head(chunks) \o Flatten(Tail(chunks))

IsPrefix(s, t) == Len(s) <= Len(t) /\ SubSeq(t, 1, Len(s)) = s

\* offsets in Flatten(chunks) at which a chunk ends (0 included)
RECURSIVE ChunkEnds(_)
ChunkEnds(chunks) ==
    IF chunks = <<>> THEN {0}
    ELSE LET n == Len(chunks)
             front == SubSeq(chunks, 1, n - 1)
         IN  ChunkEnds(front) \cup {Len(Flatten(chunks))}

NoCall == [op |-> "none", arg |-> 0, ret |-> "none", n |-> 0, buf |-> <<>>,
           remBefore |-> <<>>, remAfter |-> <<>>, head |-> <<>>, deq |-> 0]
NoPrev == [op |-> "none", ret |-> "none", view |-> <<>>]
PrevOf(c) == [op |-> c.op, ret |-> c.ret, view |-> c.remAfter]

(* ------------------- futures_channel::mpsc (bounded) ------------------ *)
\* Sender::start_send on a sender whose maybe_parked flag is `parked`, with
\* `len` messages already in the channel.  A sender made by clone() starts
\* unparked; an unparked sender always pushes its message and parks itself
\* afterwards when the channel now holds more than `buffer` messages.
start_send(open, parked, len) ==
    IF parked THEN [res |-> "Full", parks |-> TRUE]
    ELSE IF ~open THEN [res |-> "Disconnected", parks |-> FALSE]
    ELSE [res |-> "Ok", parks |-> (len + 1 > buffer)]

\* the message sink keeps its read_tx forever (the closure is forgotten), so
\* the number of live senders never reaches zero
SendersAlive == TRUE

\* mutant: the message at the head is handed out but stays in the channel
poll_next_keeps_head(q, senders) ==
    IF q # <<>> THEN [tag |-> "Some", item |-> Head(q), q |-> q, reg |-> FALSE]
    ELSE IF ~senders THEN [tag |-> "None", item |-> <<>>, q |-> q, reg |-> FALSE]
    ELSE [tag |-> "Pending", item |-> <<>>, q |-> q, reg |-> TRUE]

\* Receiver::poll_next: the oldest message, or None for a closed and empty
\* channel, or Pending with the task's waker registered
poll_next(q, senders) ==
    IF q # <<>> THEN [tag |-> "Some", item |-> Head(q), q |-> Tail(q), reg |-> FALSE]
    ELSE IF ~senders THEN [tag |-> "None", item |-> <<>>, q |-> q, reg |-> FALSE]
    ELSE [tag |-> "Pending", item |-> <<>>, q |-> q, reg |-> TRUE]

(* --------------------------- WebsocketReader -------------------------- *)
\* mutant: the Greater arm drains one byte more than it copied
write_remaining_overdrain(rem, buf) ==
    IF Len(rem) < Len(buf) THEN
        [amount |-> Len(rem),
         buf |-> rem \o SubSeq(buf, Len(rem) + 1, Len(buf)),
         remaining |-> <<>>]
    ELSE IF Len(rem) = Len(buf) THEN
        [amount |-> Len(buf), buf |-> rem, remaining |-> <<>>]
    ELSE
        [amount |-> Len(buf),
         buf |-> SubSeq(rem, 1, Len(buf)),
         remaining |-> SubSeq(rem, Len(buf) + 2, Len(rem))]

\* fn write_remaining(&mut self, buf) -> usize
write_remaining(rem, buf) ==
    IF Len(rem) < Len(buf) THEN
        \* Ordering::Less
        [amount |-> Len(rem),
         buf |-> rem \o SubSeq(buf, Len(rem) + 1, Len(buf)),
         remaining |-> <<>>]
    ELSE IF Len(rem) = Len(buf) THEN
        \* Ordering::Equal
        [amount |-> Len(buf), buf |-> rem, remaining |-> <<>>]
    ELSE
        \* Ordering::Greater
        [amount |-> Len(buf),
         buf |-> SubSeq(rem, 1, Len(buf)),
         remaining |-> SubSeq(rem, Len(buf) + 1, Len(rem))]

\* mutant: the Less arm reports the buffer length instead of the chunk length
poll_read_pads(rem, q, buf) ==
    IF rem # <<>> THEN
        LET w == write_remaining(rem, buf)
        IN  [ret |-> "Ready", n |-> w.amount, buf |-> w.buf,
             remaining |-> w.remaining, q |-> q, reg |-> FALSE, deq |-> 0]
    ELSE
        LET p == poll_next(q, SendersAlive) IN
        IF p.tag # "Some" THEN
            [ret |-> "Pending", n |-> 0, buf |-> buf,
             remaining |-> rem, q |-> p.q, reg |-> p.reg, deq |-> 0]
        ELSE
            LET array == p.item
                array_length == Len(array)
            IN  IF array_length = Len(buf) THEN
                    [ret |-> "Ready", n |-> Len(buf), buf |-> array,
                     remaining |-> rem, q |-> p.q, reg |-> FALSE, deq |-> 1]
                ELSE IF array_length < Len(buf) THEN
                    [ret |-> "Ready", n |-> Len(buf),
                     buf |-> array \o SubSeq(buf, array_length + 1, Len(buf)),
                     remaining |-> rem, q |-> p.q, reg |-> FALSE, deq |-> 1]
                ELSE
                    LET w == write_remaining(array, buf)
                    IN  [ret |-> "Ready", n |-> w.amount, buf |-> w.buf,
                         remaining |-> w.remaining, q |-> p.q, reg |-> FALSE,
                         deq |-> 1]

\* fn poll_read(self, cx, buf) -> Poll<io::Result<usize>>
poll_read(rem, q, buf) ==
    IF rem # <<>> THEN
        LET w == write_remaining(rem, buf)
        IN  [ret |-> "Ready", n |-> w.amount, buf |-> w.buf,
             remaining |-> w.remaining, q |-> q, reg |-> FALSE, deq |-> 0]
    ELSE
        LET p == poll_next(q, SendersAlive) IN
        IF p.tag # "Some" THEN
            \* Ready(None) and Pending both return Poll::Pending
            [ret |-> "Pending", n |-> 0, buf |-> buf,
             remaining |-> rem, q |-> p.q, reg |-> p.reg, deq |-> 0]
        ELSE
            LET array == p.item
                array_length == Len(array)
            IN  IF array_length = Len(buf) THEN
                    \* Ordering::Equal
                    [ret |-> "Ready", n |-> Len(buf), buf |-> array,
                     remaining |-> rem, q |-> p.q, reg |-> FALSE, deq |-> 1]
                ELSE IF array_length < Len(buf) THEN
                    \* Ordering::Less
                    [ret |-> "Ready", n |-> array_length,
                     buf |-> array \o SubSeq(buf, array_length + 1, Len(buf)),
                     remaining |-> rem, q |-> p.q, reg |-> FALSE, deq |-> 1]
                ELSE
                    \* Ordering::Greater: remaining := array, then write_remaining
                    LET w == write_remaining(array, buf)
                    IN  [ret |-> "Ready", n |-> w.amount, buf |-> w.buf,
                         remaining |-> w.remaining, q |-> p.q, reg |-> FALSE,
                         deq |-> 1]

\* mutant: the early return for a non-empty carry-over is missing
poll_fill_buf_refills(rem, q) ==
    LET p == poll_next(q, SendersAlive) IN
    IF p.tag # "Some" THEN
        [ret |-> "Pending", remaining |-> rem, q |-> p.q, reg |-> p.reg, deq |-> 0]
    ELSE
        LET r == rem \o p.item
        IN  IF Len(r) = 0 THEN
                [ret |-> "Pending", remaining |-> r, q |-> p.q, reg |-> FALSE, deq |-> 1]
            ELSE
                [ret |-> "Ready", remaining |-> r, q |-> p.q, reg |-> FALSE, deq |-> 1]

\* fn poll_fill_buf(self, cx) -> Poll<io::Result<&[u8]>>; the view returned
\* by Ready is the whole of `remaining`
poll_fill_buf(rem, q) ==
    IF rem # <<>> THEN
        [ret |-> "Ready", remaining |-> rem, q |-> q, reg |-> FALSE, deq |-> 0]
    ELSE
        LET p == poll_next(q, SendersAlive) IN
        IF p.tag # "Some" THEN
            [ret |-> "Pending", remaining |-> rem, q |-> p.q, reg |-> p.reg, deq |-> 0]
        ELSE
            LET r == rem \o p.item
            IN  IF Len(r) = 0 THEN
                    \* a zero-length chunk: Pending, and poll_next registered nothing
                    [ret |-> "Pending", remaining |-> r, q |-> p.q, reg |-> FALSE, deq |-> 1]
                ELSE
                    [ret |-> "Ready", remaining |-> r, q |-> p.q, reg |-> FALSE, deq |-> 1]

\* mutant: drain(0..amt) replaced by truncate(amt): keeps what it should remove
consume_keeps_front(rem, amt) ==
    IF Len(rem) = amt THEN [panics |-> FALSE, remaining |-> <<>>]
    ELSE IF amt > Len(rem) THEN [panics |-> TRUE, remaining |-> rem]
    ELSE [panics |-> FALSE, remaining |-> SubSeq(rem, 1, amt)]

\* fn consume(self, amt): drain(0..amt) panics when amt > remaining.len()
consume(rem, amt) ==
    IF Len(rem) = amt THEN [panics |-> FALSE, remaining |-> <<>>]
    ELSE IF amt > Len(rem) THEN [panics |-> TRUE, remaining |-> rem]
    ELSE [panics |-> FALSE, remaining |-> SubSeq(rem, amt + 1, Len(rem))]

(* ------------------------------ transport ----------------------------- *)
\* outcomes of WebSocket::send_with_u8_array (a Result): it fails while the
\* socket is connecting, succeeds while it is open; on a closing or closed
\* socket the host either discards the bytes silently or reports a failure
SendOutcomes(state) ==
    IF state = "open" THEN {"Ok"}
    ELSE IF state = "connecting" THEN {"Err"}
    ELSE {"Ok", "Err"}

\* outcomes of WebSocket::close (a Result): the host may report an error
CloseOutcomes(state) == {"Ok", "Err"}

\* mutant: the await on the oneshot receiver is missing
open_rx_ready_always(rx) == TRUE

\* open_rx.await: resolved once the sender has sent
open_rx_ready(rx) == rx = "sent"

(* ------------------------------- Init --------------------------------- *)
\* outcomes of WebSocket::new(url) (a Result): the host accepts the URL and
\* returns a connecting socket, or rejects it (SyntaxError, SecurityError)
WebSocketNewOutcomes == {"Ok", "Err"}

\* the state after the first poll of new_inner.
\* Ok: it has created the socket, the two channels and the reader, has
\* registered the three callbacks and is suspended in open_rx.await.
\* Err: the map_err closure runs todo!() and panics before any socket,
\* channel or callback exists.
Init ==
    /\ \E o \in WebSocketNewOutcomes :
         IF o = "Ok"
         THEN /\ wsState = "connecting"
              /\ open_tx = "Some"
              /\ connectPc = "awaiting"
              /\ rxOpen = TRUE
              /\ panic = "none"
         ELSE /\ wsState = "none"
              /\ open_tx = "None"
              /\ connectPc = "none"
              /\ rxOpen = FALSE
              /\ panic = "new_inner"
    /\ open_rx = "empty"
    /\ nMsgs = 0
    /\ inflight = {}
    /\ queue = <<>>
    /\ recv_task = FALSE
    /\ remaining = <<>>
    /\ reader = "none"
    /\ pending = [op |-> "none", arg |-> 0]
    /\ woken = FALSE
    /\ writer = "none"
    /\ wres = [op |-> "none", ret |-> "none", n |-> 0, len |-> 0, state |-> "connecting"]
    /\ enq = <<>>
    /\ enqIds = <<>>
    /\ out = <<>>
    /\ last = NoCall
    /\ prev = NoPrev

transportVars == <<wsState, open_tx, open_rx, connectPc>>
channelVars == <<inflight, queue, rxOpen, recv_task, enq, enqIds>>
readerVars == <<remaining, reader, pending, woken, out, last, prev>>
writerVars == <<writer, wres>>

(* ------------------------- transport events --------------------------- *)
\* onopen_callback: open_tx.take().unwrap().send(()).unwrap()
OnOpen ==
    /\ panic = "none"
    /\ wsState = "connecting"
    /\ wsState' = "open"
    /\ open_tx' = "None"
    /\ IF open_tx = "None"
       THEN /\ panic' = "onopen_callback"
            /\ open_rx' = open_rx
       ELSE /\ open_rx' = "sent"
            /\ panic' = panic
    /\ UNCHANGED <<connectPc, nMsgs, channelVars, readerVars, writerVars>>

\* onerror_callback does nothing; the host then closes the socket
OnError ==
    /\ panic = "none"
    /\ wsState \in {"connecting", "open", "closing"}
    /\ wsState' = "closed"
    /\ UNCHANGED <<open_tx, open_rx, connectPc, nMsgs, channelVars, readerVars,
                   writerVars, panic>>

\* the close event (no callback is registered for it)
OnCloseEvent ==
    /\ panic = "none"
    /\ wsState \in {"open", "closing"}
    /\ wsState' = "closed"
    /\ UNCHANGED <<open_tx, open_rx, connectPc, nMsgs, channelVars, readerVars,
                   writerVars, panic>>

\* onmessage_callback with a Blob payload of `len` bytes: a FileReader is
\* started on it and the callback returns
OnMessageBlob(len) ==
    /\ panic = "none"
    /\ wsState \in {"open", "closing"}
    /\ nMsgs < MaxMsgs
    /\ nMsgs' = nMsgs + 1
    /\ inflight' = inflight \cup {[id |-> nMsgs + 1, data |-> Payload(nMsgs + 1, len)]}
    /\ UNCHANGED <<transportVars, queue, rxOpen, recv_task, enq, enqIds,
                   readerVars, writerVars, panic>>

\* onmessage_callback with a payload that is not a Blob: `_ => return`
OnMessageOther ==
    /\ panic = "none"
    /\ wsState \in {"open", "closing"}
    /\ nMsgs < MaxMsgs
    /\ nMsgs' = nMsgs + 1
    /\ UNCHANGED <<transportVars, channelVars, readerVars, writerVars, panic>>

\* mutant: the send result is ignored and a chunk that finds `buffer` messages
\* in the channel is dropped
LoadEndDropsWhenFull(d) ==
    /\ panic = "none"
    /\ d \in inflight
    /\ inflight' = inflight \ {d}
    /\ IF rxOpen /\ Len(queue) < buffer
       THEN /\ queue' = Append(queue, d.data)
            /\ enq' = Append(enq, d.data)
            /\ enqIds' = Append(enqIds, d.id)
            /\ recv_task' = FALSE
            /\ woken' = (woken \/ recv_task)
       ELSE UNCHANGED <<queue, enq, enqIds, recv_task, woken>>
    /\ UNCHANGED <<transportVars, nMsgs, rxOpen, remaining, reader, pending,
                   out, last, prev, writerVars, panic>>

\* file_reader_load_end of one FileReader: read_tx.start_send(array).unwrap().
\* The host completes the reads of different blobs in any order.
LoadEnd(d) ==
    /\ panic = "none"
    /\ d \in inflight
    /\ inflight' = inflight \ {d}
    /\ LET r == start_send(rxOpen, FALSE, Len(queue)) IN
       IF r.res = "Ok"
       THEN /\ queue' = Append(queue, d.data)
            /\ enq' = Append(enq, d.data)
            /\ enqIds' = Append(enqIds, d.id)
            /\ recv_task' = FALSE
            /\ woken' = (woken \/ recv_task)
            /\ panic' = panic
       ELSE /\ panic' = "start_send"
            /\ UNCHANGED <<queue, enq, enqIds, recv_task, woken>>
    /\ UNCHANGED <<transportVars, nMsgs, rxOpen, remaining, reader, pending,
                   out, last, prev, writerVars>>

\* the host fires the open event of an open socket once more: the same
\* onopen_callback runs, open_tx.take() yields None and unwrap panics
OnOpenAgain ==
    /\ panic = "none"
    /\ wsState = "open"
    /\ open_tx' = "None"
    /\ IF open_tx = "None"
       THEN /\ panic' = "onopen_callback"
            /\ open_rx' = open_rx
       ELSE /\ open_rx' = "sent"
            /\ panic' = panic
    /\ UNCHANGED <<wsState, connectPc, nMsgs, channelVars, readerVars, writerVars>>

(* ------------------------------ bootstrap ----------------------------- *)
\* open_rx.await.unwrap(); Ok(WebsocketIO { ws, reader })
ConnectReturn ==
    /\ panic = "none"
    /\ connectPc = "awaiting"
    /\ open_rx_ready(open_rx)
    /\ connectPc' = "ready"
    /\ UNCHANGED <<wsState, open_tx, open_rx, nMsgs, channelVars, readerVars,
                   writerVars, panic>>

\* pub fn split(self) -> (impl AsyncBufRead, impl AsyncWrite)
Split ==
    /\ panic = "none"
    /\ connectPc = "ready"
    /\ connectPc' = "split"
    /\ reader' = "idle"
    /\ writer' = "live"
    /\ UNCHANGED <<wsState, open_tx, open_rx, nMsgs, channelVars, remaining,
                   pending, woken, out, last, prev, wres, panic>>

(* ------------------------------ read half ----------------------------- *)
HeadOf(q) == IF q = <<>> THEN <<>> ELSE <<Head(q)>>

\* one poll of reader.read(buf) with a buffer of L bytes
PollReadStep(L) ==
    LET buf0 == [i \in 1..L |-> Stale]
        r == poll_read(remaining, queue, buf0)
    IN  /\ remaining' = r.remaining
        /\ queue' = r.q
        /\ recv_task' = (recv_task \/ r.reg)
        /\ woken' = FALSE
        /\ reader' = IF r.ret = "Pending" THEN "suspended" ELSE "idle"
        /\ pending' = IF r.ret = "Pending" THEN [op |-> "read", arg |-> L]
                      ELSE [op |-> "none", arg |-> 0]
        /\ out' = IF r.ret = "Ready" THEN out \o SubSeq(r.buf, 1, r.n) ELSE out
        /\ last' = [op |-> "read", arg |-> L, ret |-> r.ret, n |-> r.n,
                    buf |-> r.buf, remBefore |-> remaining,
                    remAfter |-> r.remaining, head |-> HeadOf(queue),
                    deq |-> r.deq]
        /\ prev' = PrevOf(last)
        /\ UNCHANGED <<transportVars, nMsgs, inflight, rxOpen, enq, enqIds,
                       writerVars, panic>>

\* one poll of reader.fill_buf()
PollFillBufStep ==
    LET r == poll_fill_buf(remaining, queue)
    IN  /\ remaining' = r.remaining
        /\ queue' = r.q
        /\ recv_task' = (recv_task \/ r.reg)
        /\ woken' = FALSE
        /\ reader' = IF r.ret = "Pending" THEN "suspended" ELSE "idle"
        /\ pending' = IF r.ret = "Pending" THEN [op |-> "fill_buf", arg |-> 0]
                      ELSE [op |-> "none", arg |-> 0]
        /\ last' = [op |-> "fill_buf", arg |-> 0, ret |-> r.ret,
                    n |-> IF r.ret = "Ready" THEN Len(r.remaining) ELSE 0,
                    buf |-> IF r.ret = "Ready" THEN r.remaining ELSE <<>>,
                    remBefore |-> remaining, remAfter |-> r.remaining,
                    head |-> HeadOf(queue), deq |-> r.deq]
        /\ prev' = PrevOf(last)
        /\ UNCHANGED <<transportVars, nMsgs, inflight, rxOpen, enq, enqIds,
                       out, writerVars, panic>>

\* the task calls read(buf): first poll
Read(L) ==
    /\ panic = "none"
    /\ reader = "idle"
    /\ PollReadStep(L)

\* the woken task polls its suspended read again
RepollRead ==
    /\ panic = "none"
    /\ reader = "suspended"
    /\ woken
    /\ pending.op = "read"
    /\ PollReadStep(pending.arg)

\* the task calls fill_buf(): first poll
FillBuf ==
    /\ panic = "none"
    /\ reader = "idle"
    /\ PollFillBufStep

\* the woken task polls its suspended fill_buf again
RepollFillBuf ==
    /\ panic = "none"
    /\ reader = "suspended"
    /\ woken
    /\ pending.op = "fill_buf"
    /\ PollFillBufStep

\* the task calls consume(amt)
Consume(amt) ==
    /\ panic = "none"
    /\ reader = "idle"
    /\ LET r == consume(remaining, amt) IN
        /\ remaining' = r.remaining
        /\ panic' = IF r.panics THEN "consume" ELSE panic
        /\ out' = IF r.panics THEN out ELSE out \o SubSeq(remaining, 1, amt)
        /\ last' = [op |-> "consume", arg |-> amt,
                    ret |-> IF r.panics THEN "Panic" ELSE "Done", n |-> 0,
                    buf |-> <<>>, remBefore |-> remaining,
                    remAfter |-> r.remaining, head |-> HeadOf(queue), deq |-> 0]
        /\ prev' = PrevOf(last)
    /\ UNCHANGED <<transportVars, nMsgs, channelVars, reader, pending, woken,
                   writerVars>>

\* the read half is dropped: the Receiver closes the channel and drains it;
\* a waker registered in the channel stays there (the leaked senders keep
\* the channel alive) and is never used again
DropReader ==
    /\ panic = "none"
    /\ reader \in {"idle", "suspended"}
    /\ reader' = "dropped"
    /\ rxOpen' = FALSE
    /\ queue' = <<>>
    /\ woken' = FALSE
    /\ pending' = [op |-> "none", arg |-> 0]
    /\ remaining' = <<>>
    /\ UNCHANGED <<transportVars, nMsgs, inflight, recv_task, enq, enqIds, out,
                   last, prev, writerVars, panic>>

(* ------------------------------ write half ---------------------------- *)
\* poll_write: self.ws.send_with_u8_array(buf).unwrap(); Ready(Ok(buf.len()))
Write(len) ==
    /\ panic = "none"
    /\ writer = "live"
    /\ \E o \in SendOutcomes(wsState) :
        IF o = "Ok"
        THEN /\ wres' = [op |-> "write", ret |-> "Ok", n |-> len, len |-> len,
                       state |-> wsState]
             /\ panic' = panic
        ELSE /\ wres' = [op |-> "write", ret |-> "Panic", n |-> 0, len |-> len,
                       state |-> wsState]
             /\ panic' = "poll_write"
    /\ UNCHANGED <<transportVars, nMsgs, channelVars, readerVars, writer>>

\* poll_flush: Ready(Ok(()))
Flush ==
    /\ panic = "none"
    /\ writer = "live"
    /\ wres' = [op |-> "flush", ret |-> "Ok", n |-> 0, len |-> 0, state |-> wsState]
    /\ UNCHANGED <<transportVars, nMsgs, channelVars, readerVars, writer, panic>>

\* poll_close: self.ws.close().unwrap(); Ready(Ok(()))
Close ==
    /\ panic = "none"
    /\ writer = "live"
    /\ \E o \in CloseOutcomes(wsState) :
        IF o = "Ok"
        THEN /\ wres' = [op |-> "close", ret |-> "Ok", n |-> 0, len |-> 0,
                       state |-> wsState]
             /\ wsState' = IF wsState \in {"connecting", "open"} THEN "closing"
                           ELSE wsState
             /\ panic' = panic
        ELSE /\ wres' = [op |-> "close", ret |-> "Panic", n |-> 0, len |-> 0,
                       state |-> wsState]
             /\ wsState' = wsState
             /\ panic' = "poll_close"
    /\ UNCHANGED <<open_tx, open_rx, connectPc, nMsgs, channelVars, readerVars,
                   writer>>

\* the write half is dropped: dropping the WebSocket handle closes nothing
DropWriter ==
    /\ panic = "none"
    /\ writer = "live"
    /\ writer' = "dropped"
    /\ UNCHANGED <<transportVars, nMsgs, channelVars, readerVars, wres, panic>>

(* --------------------------- specifications --------------------------- *)
Next ==
    \/ OnOpen
    \/ OnError
    \/ OnCloseEvent
    \/ \E len \in 0..MaxChunkLen : OnMessageBlob(len)
    \/ OnMessageOther
    \/ \E d \in inflight : LoadEnd(d)
    \/ ConnectReturn
    \/ Split
    \/ \E L \in 0..MaxBuf : Read(L)
    \/ RepollRead
    \/ FillBuf
    \/ RepollFillBuf
    \/ \E amt \in 0..(Len(remaining) + 1) : Consume(amt)
    \/ DropReader
    \/ \E len \in 0..MaxWrite : Write(len)
    \/ Flush
    \/ Close
    \/ DropWriter

Spec == Init /\ [][Next]_vars

\* the read half driven through read(buf) alone
NextRead ==
    \/ OnOpen
    \/ OnError
    \/ OnCloseEvent
    \/ \E len \in 0..MaxChunkLen : OnMessageBlob(len)
    \/ OnMessageOther
    \/ \E d \in inflight : LoadEnd(d)
    \/ ConnectReturn
    \/ Split
    \/ \E L \in 0..MaxBuf : Read(L)
    \/ RepollRead

SpecRead == Init /\ [][NextRead]_vars

\* the read half driven through read, fill_buf and consume
NextBuf ==
    \/ OnOpen
    \/ OnError
    \/ OnCloseEvent
    \/ \E len \in 0..MaxChunkLen : OnMessageBlob(len)
    \/ OnMessageOther
    \/ \E d \in inflight : LoadEnd(d)
    \/ ConnectReturn
    \/ Split
    \/ \E L \in 0..MaxBuf : Read(L)
    \/ RepollRead
    \/ FillBuf
    \/ RepollFillBuf
    \/ \E amt \in 0..(Len(remaining) + 1) : Consume(amt)

SpecBuf == Init /\ [][NextBuf]_vars

\* the bootstrap and the write half
NextWrite ==
    \/ OnOpen
    \/ OnError
    \/ OnCloseEvent
    \/ \E len \in 0..MaxChunkLen : OnMessageBlob(len)
    \/ OnMessageOther
    \/ \E d \in inflight : LoadEnd(d)
    \/ ConnectReturn
    \/ Split
    \/ \E len \in 0..MaxWrite : Write(len)
    \/ Flush
    \/ Close
    \/ DropWriter

SpecWrite == Init /\ [][NextWrite]_vars

\* the event loop runs a resolved connect future, delivers every loadend and
\* polls a woken task
FairSpec ==
    /\ Init
    /\ [][Next]_vars
    /\ WF_vars(ConnectReturn)
    /\ WF_vars(\E d \in inflight : LoadEnd(d))
    /\ WF_vars(RepollRead)
    /\ WF_vars(RepollFillBuf)

\* the bootstrap and the write half under the same scheduling
FairWrite ==
    /\ Init
    /\ [][NextWrite]_vars
    /\ WF_vars(ConnectReturn)
    /\ WF_vars(\E d \in inflight : LoadEnd(d))

(* ------------------------------- claims ------------------------------- *)
\* number of chunks the reader has taken out of the channel
Dequeued == Len(enq) - Len(queue)

\* the chunk a poll found at the head of the channel
HeadChunk == last.head[1]

\* C1: driven by read(buf) alone, the bytes returned so far are a prefix of
\* the concatenation of the enqueued chunks (together with the carry-over and
\* the channel they are exactly that concatenation: nothing dropped,
\* duplicated or reordered), and a read ends at the end of the caller's
\* buffer or at the end of a chunk.
C1_ChunkReassembly ==
    /\ IsPrefix(out, Flatten(enq))
    /\ out \o remaining \o Flatten(queue) = Flatten(enq)
    /\ (last.op = "read" /\ last.ret = "Ready")
          => (last.n = last.arg \/ Len(out) \in ChunkEnds(enq))

\* two two-byte chunks read completely, the last read served from the carry-over
C1_Witness ==
    /\ Len(enq) = 2
    /\ Len(enq[1]) = 2
    /\ Len(enq[2]) = 2
    /\ out = Flatten(enq)
    /\ last.op = "read"
    /\ last.remBefore # <<>>

\* C2: chunks are enqueued in the order in which the transport delivered
\* their message events, whatever the order in which the decodes complete.
C2_DeliveryOrderPreserved ==
    \A i, j \in 1..Len(enqIds) : i < j => enqIds[i] < enqIds[j]

\* C3: a read that finds the carry-over empty and a chunk of M < L bytes at
\* the head returns M, writes the chunk to buf[0..M], leaves buf[M..L] as it
\* was, leaves the carry-over empty and dequeues that one chunk; the chunk a
\* read dequeues is the next one in enqueue order.
C3_ShortRead ==
    /\ (last.op = "read" /\ last.remBefore = <<>> /\ last.head # <<>>
          /\ Len(HeadChunk) < last.arg)
         => /\ last.ret = "Ready"
            /\ last.n = Len(HeadChunk)
            /\ Len(last.buf) = last.arg
            /\ SubSeq(last.buf, 1, last.n) = HeadChunk
            /\ \A i \in (last.n + 1)..last.arg : last.buf[i] = Stale
            /\ last.remAfter = <<>>
            /\ last.deq = 1
    /\ (last.op = "read" /\ last.deq = 1) => HeadChunk = enq[Dequeued]

\* the second chunk, one byte long, read into a three-byte buffer
C3_Witness ==
    /\ last.op = "read"
    /\ last.remBefore = <<>>
    /\ last.head # <<>>
    /\ Len(HeadChunk) = 1
    /\ last.arg = 3
    /\ last.ret = "Ready"
    /\ Dequeued = 2

\* C4: a read that finds the carry-over empty and a chunk of M > L bytes at
\* the head returns L with the chunk's first L bytes and keeps the other M-L
\* bytes, in order, in the carry-over; a read that finds the carry-over
\* non-empty returns its first min(len, L) bytes, keeps the rest and dequeues
\* nothing; so the bytes returned plus the carry-over are always exactly the
\* chunks dequeued so far.
C4_SplitChunk ==
    /\ (last.op = "read" /\ last.remBefore = <<>> /\ last.head # <<>>
          /\ Len(HeadChunk) > last.arg)
         => /\ last.ret = "Ready"
            /\ last.n = last.arg
            /\ last.buf = SubSeq(HeadChunk, 1, last.arg)
            /\ last.remAfter = SubSeq(HeadChunk, last.arg + 1, Len(HeadChunk))
            /\ last.deq = 1
    /\ (last.op = "read" /\ last.remBefore # <<>>)
         => /\ last.ret = "Ready"
            /\ last.n = Min(Len(last.remBefore), last.arg)
            /\ Len(last.buf) = last.arg
            /\ SubSeq(last.buf, 1, last.n) = SubSeq(last.remBefore, 1, last.n)
            /\ last.remAfter =
                   SubSeq(last.remBefore, last.n + 1, Len(last.remBefore))
            /\ last.deq = 0
    /\ out \o remaining = Flatten(SubSeq(enq, 1, Dequeued))

\* a read split a chunk and the next read returned the rest of it
C4_Witness ==
    /\ prev.op = "read"
    /\ prev.ret = "Ready"
    /\ prev.view # <<>>
    /\ last.op = "read"
    /\ last.arg > Len(last.remBefore)
    /\ last.remBefore = prev.view
    /\ last.head # <<>>
    /\ last.remAfter = <<>>

\* C5: a fill_buf that follows a fill_buf which returned a view, with no
\* other call on the read half in between, returns the same bytes, dequeues
\* nothing and leaves the carry-over as it was.
C5_FillBufIdempotent ==
    (prev.op = "fill_buf" /\ prev.ret = "Ready" /\ last.op = "fill_buf")
        => /\ last.ret = "Ready"
           /\ last.buf = prev.view
           /\ last.deq = 0
           /\ last.remAfter = last.remBefore
           /\ remaining = prev.view

\* the second fill_buf ran with a chunk waiting in the channel
C5_Witness ==
    /\ prev.op = "fill_buf"
    /\ prev.ret = "Ready"
    /\ last.op = "fill_buf"
    /\ last.head # <<>>
    /\ Len(last.buf) = 2

\* C6: consume(n) with n <= len(carry) removes exactly the first n bytes of
\* the carry-over and keeps the rest in order; consume of the length of the
\* view fill_buf just returned empties it; the channel is left alone (the
\* bytes handed out, the carry-over and the channel still make up the
\* enqueued chunks).
C6_ConsumeRemovesPrefix ==
    /\ (last.op = "consume" /\ last.arg <= Len(last.remBefore))
         => /\ last.ret = "Done"
            /\ last.remAfter =
                   SubSeq(last.remBefore, last.arg + 1, Len(last.remBefore))
            /\ remaining = last.remAfter
            /\ out \o remaining \o Flatten(queue) = Flatten(enq)
    /\ (prev.op = "fill_buf" /\ prev.ret = "Ready" /\ last.op = "consume"
          /\ last.arg = Len(prev.view))
         => remaining = <<>>

\* one byte of a two-byte view consumed, with a chunk waiting in the channel
C6_Witness ==
    /\ prev.op = "fill_buf"
    /\ prev.ret = "Ready"
    /\ last.op = "consume"
    /\ last.arg = 1
    /\ Len(last.remBefore) = 2
    /\ Len(remaining) = 1
    /\ queue # <<>>

\* C7: the handle exists (connect has returned, or the halves exist) only
\* after the open sink has run: the sender has been taken and used and the
\* socket has left the connecting state.
C7_ReadinessGate ==
    (connectPc \in {"ready", "split"} \/ reader # "none" \/ writer # "none")
        => (open_tx = "None" /\ open_rx = "sent" /\ wsState \notin {"none", "connecting"})

\* a write on the write half of a returned, split handle
C7_Witness ==
    /\ connectPc = "split"
    /\ wres.op = "write"
    /\ wres.ret = "Ok"

\* C8: once the socket has closed without ever opening, the pending connect
\* eventually completes (with a ConnectionError).
C8_ConnectFailsEventually ==
    (wsState = "closed" /\ open_tx = "Some") ~> (connectPc = "failed")

\* C9: write completes with a value: the length on success, a SendError when
\* the raw send fails; it never aborts.
C9_WriteReturnsValue ==
    /\ panic # "poll_write"
    /\ wres.op = "write" => wres.ret \in {"Ok", "SendError"}
    /\ (wres.op = "write" /\ wres.ret = "Ok") => wres.n = wres.len

\* C10: close on the write half completes with success, whatever the
\* transport's own close reports and however often it is called.
C10_CloseAlwaysSucceeds ==
    /\ panic # "poll_close"
    /\ wres.op = "close" => wres.ret = "Ok"

\* the producer side has permanently stopped: the socket is closed and no
\* decode is in flight, so no chunk will ever be enqueued again
ProducerStopped == wsState = "closed" /\ inflight = {}

\* C11: a read or fill_buf called with the carry-over empty, the channel
\* empty and the producer side permanently stopped completes with an
\* end-of-stream outcome; it does not suspend like a call on an empty channel
\* that is still fed.
C11_EndOfStream ==
    [][(/\ ProducerStopped
        /\ remaining = <<>>
        /\ queue = <<>>
        /\ reader = "idle"
        /\ reader' = "suspended") => last'.ret = "Eof"]_vars

(* --------------------- a burst of binary messages --------------------- *)
\* messages delivered beyond the channel's `buffer` in one burst
MaxOver == 1

\* onmessage_callback with a one-byte Blob payload, for a transport that
\* delivers up to buffer + MaxOver messages
DeliverBurst ==
    /\ panic = "none"
    /\ wsState \in {"open", "closing"}
    /\ nMsgs < buffer + MaxOver
    /\ nMsgs' = nMsgs + 1
    /\ inflight' = inflight \cup {[id |-> nMsgs + 1, data |-> Payload(nMsgs + 1, 1)]}
    /\ UNCHANGED <<transportVars, queue, rxOpen, recv_task, enq, enqIds,
                   readerVars, writerVars, panic>>

\* more binary messages than the channel's buffer, a reader that reads or
\* is dropped
NextBurst ==
    \/ OnOpen
    \/ DeliverBurst
    \/ \E d \in inflight : LoadEnd(d)
    \/ ConnectReturn
    \/ Split
    \/ \E L \in 1..MaxBuf : Read(L)
    \/ RepollRead
    \/ DropReader

SpecBurst == Init /\ [][NextBurst]_vars

\* ids of the messages whose decode has completed (every message of a burst
\* is binary)
DecodedIds == (1..nMsgs) \ {d.id : d \in inflight}

\* ids of the messages whose chunk was enqueued
EnqueuedIds == {enqIds[i] : i \in 1..Len(enqIds)}

\* C12: of buffer + 1 or more binary messages delivered and decoded, none is
\* lost without trace: a decoded message was enqueued, or the sink failed
\* explicitly (panic in start_send().unwrap()); and while the read half
\* lives, every enqueued byte has been returned, is in the carry-over or is
\* still queued, in enqueue order.
C12_NoSilentLoss ==
    /\ (DecodedIds \ EnqueuedIds # {}) => panic = "start_send"
    /\ EnqueuedIds \subseteq DecodedIds
    /\ Len(enqIds) = Cardinality(EnqueuedIds)
    /\ rxOpen => out \o remaining \o Flatten(queue) = Flatten(enq)
    /\ IsPrefix(out, Flatten(enq))

\* buffer + 1 messages decoded and queued before the reader took anything
C12_Witness ==
    /\ nMsgs = buffer + 1
    /\ inflight = {}
    /\ Len(queue) = buffer + 1
    /\ Dequeued = 0
    /\ reader = "idle"
    /\ panic = "none"

\* C13: the channel never holds more than `buffer` chunks; an enqueue on a
\* full channel fails loudly instead.
C13_BoundedQueue ==
    Len(queue) <= buffer

\* C14: a poll of read or fill_buf returns Pending only when it found both
\* the carry-over and the channel empty.
C14_PendingOnlyWhenEmpty ==
    (last.op \in {"read", "fill_buf"} /\ last.ret = "Pending")
        => (last.remBefore = <<>> /\ last.head = <<>>)

\* C15: whenever a read or fill_buf is suspended, a wake-up is on its way:
\* the task's waker is registered in the channel, or the task has been woken
\* and awaits its poll.
C15_WakeRegistered ==
    reader = "suspended" => (recv_task \/ woken)

\* C15, as progress: a suspended call with a non-empty chunk in the channel
\* eventually completes.
C15_NoLostWakeup ==
    (reader = "suspended" /\ \E i \in 1..Len(queue) : queue[i] # <<>>)
        ~> (reader = "idle")

\* the read half under the event loop's scheduling
FairBuf ==
    /\ Init
    /\ [][NextBuf]_vars
    /\ WF_vars(ConnectReturn)
    /\ WF_vars(\E d \in inflight : LoadEnd(d))
    /\ WF_vars(RepollRead)
    /\ WF_vars(RepollFillBuf)

\* the bootstrap and the write half on a host that may fire the open event
\* more than once
NextOpen ==
    \/ OnOpen
    \/ OnOpenAgain
    \/ OnError
    \/ OnCloseEvent
    \/ \E len \in 0..MaxChunkLen : OnMessageBlob(len)
    \/ OnMessageOther
    \/ \E d \in inflight : LoadEnd(d)
    \/ ConnectReturn
    \/ Split
    \/ \E len \in 0..MaxWrite : Write(len)
    \/ Flush
    \/ Close
    \/ DropWriter

SpecOpen == Init /\ [][NextOpen]_vars

\* C16: the open sink fires the readiness signal on the first open event and
\* ignores every later one: it never aborts, and once the signal has fired
\* the sender stays taken and the signal stays fired.
C16_LaterOpenIgnored ==
    /\ panic # "onopen_callback"
    /\ open_rx = "sent" => open_tx = "None"

\* s is what is left of t after a drain(0..n) from its front
IsSuffix(s, t) == Len(s) <= Len(t) /\ SubSeq(t, Len(t) - Len(s) + 1, Len(t)) = s

\* C17: read and fill_buf alike dequeue a chunk only when they found the
\* carry-over empty; so a non-empty carry-over is a suffix of the chunk
\* dequeued last and never holds bytes of two chunks (the bytes of different
\* chunks are distinct, see Payload).
C17_CarryOverDiscipline ==
    /\ (last.op = "read" /\ last.deq = 1) => last.remBefore = <<>>
    /\ (last.op = "fill_buf" /\ last.deq = 1) => last.remBefore = <<>>
    /\ remaining # <<>> => (Dequeued >= 1 /\ IsSuffix(remaining, enq[Dequeued]))

\* the second chunk split by a read: its tail is the carry-over
C17_Witness ==
    /\ last.op = "read"
    /\ last.deq = 1
    /\ Dequeued = 2
    /\ remaining # <<>>
    /\ Len(remaining) < Len(enq[2])
    /\ queue = <<>>

\* C18: dropping one half leaves the other usable: with the read half
\* dropped the message sink does not fail on a later message, and with the
\* write half dropped the read half still gets every chunk.
C18_DropKeepsOtherHalf ==
    /\ (reader = "dropped" /\ wsState = "open") => panic # "start_send"
    /\ (writer = "dropped" /\ reader \in {"idle", "suspended"})
         => out \o remaining \o Flatten(queue) = Flatten(enq)

\* C19: with read, fill_buf and consume interleaved, the bytes returned by
\* read and the bytes consumed are, in call order, a prefix of the enqueued
\* chunks, and a view returned by fill_buf starts at the first byte neither
\* returned nor consumed yet.
C19_InterleavedOrder ==
    /\ IsPrefix(out, Flatten(enq))
    /\ out \o remaining = Flatten(SubSeq(enq, 1, Dequeued))
    /\ (last.op = "fill_buf" /\ last.ret = "Ready")
         => (last.buf # <<>> /\ IsPrefix(out \o last.buf, Flatten(enq)))

\* two chunks taken by a mix of calls, the last byte by a read after a consume
C19_Witness ==
    /\ prev.op = "consume"
    /\ last.op = "read"
    /\ last.remBefore # <<>>
    /\ Len(enq) = 2
    /\ Len(out) = 4
    /\ out = Flatten(enq)

\* C20: a read into a non-empty buffer never completes with 0 bytes, and a
\* read into an empty buffer returns 0 and loses nothing.
C20_NoEmptyRead ==
    /\ (last.op = "read" /\ last.ret = "Ready" /\ last.arg > 0) => last.n > 0
    /\ (last.op = "read" /\ last.ret = "Ready" /\ last.arg = 0) => last.n = 0
    /\ out \o remaining \o Flatten(queue) = Flatten(enq)

====
